---- MODULE Spec2Model ----
(***************************************************************************)
(* A model of channeljs: a Channel owns a Map from message to a Set of     *)
(* listeners; Tx.send iterates the live Set of a message and calls every   *)
(* listener, Rx.on / once / onweak / off / off_all change the Map and its  *)
(* Sets, Channel.clear empties the Map, Tx.send_async defers a send with   *)
(* setTimeout(.., 0).                                                      *)
(*                                                                         *)
(* The Map holds Set *objects*: subscribers maps a message to the address  *)
(* of a Set in heap, so that a for-of loop that is iterating a Set keeps   *)
(* iterating that object after Map.clear() or Map.delete() dropped it.     *)
(* A Set is the sequence of its elements in insertion order; an iterator   *)
(* is the number of elements it has passed.                                *)
(*                                                                         *)
(* JavaScript runs one job at a time to completion: the call stack is the  *)
(* variable stack (one frame per running Tx.send), the top-level calls of  *)
(* the user and the timer callbacks start only when the stack is empty.    *)
(*                                                                         *)
(* The repository holds two builds: src/src/index.ts has the static table  *)
(* of channels and no off_all, src/unnamed/part_001 (lines 1-185) has      *)
(* off_all and returns the WeakRef from onweak.  pool.build says which one *)
(* a specification runs; no specification takes steps of both.             *)
(***************************************************************************)
EXTENDS Integers, Sequences, FiniteSets, TLC

\* ---------------------------------------------------------------- bounds
\* the number of subscriptions the user keeps in the registry at a time
MaxSubs == 3
\* the number of once / onweak closures among them
MaxTramp == 2
\* the number of send_async promises the model tracks
MaxTimers == 2
\* the number of listener calls the model follows within one job
MaxCalls == 8

\* ---------------------------------------------------------------- inputs
Msgs == {"m1", "m2"}
Args == {"a", "b"}
\* the user's listener functions; what each one does is Script below
Fns == {"A", "B", "S", "F", "N", "C", "T", "O"}
NoMsg == "-"
NoFn == "-"
NoArg == "-"
\* the builds of the library the repository holds: src/src/index.ts, with
\* the static table of channels and without off_all, and the one of
\* src/unnamed/part_001 (lines 1-185), with off_all and without the table
Builds == {"index", "part_001"}
\* the objects the user associates a channel with
Hosts == {"h1", "h2"}
NoHost == "-"

\* the deepest nesting of Tx.send calls the listeners of Fns can produce:
\* only S sends, and only when it is called with "a", and it sends "b"
MaxDepth == 2
\* Set objects that can be referenced at the same time: one per message in
\* the Map and one per running send (a Set the Map has dropped)
MaxSets == Cardinality(Msgs) + MaxDepth

VARIABLES
    pool,         \* the user of this run: which functions it passes to on, to
                  \* once and to onweak, which of them it lets go of, and
                  \* the build of the library it runs
    subscribers,  \* Channel.#subscribers: message -> address of its Set, 0 = no entry
    heap,         \* address -> the Set object: its elements in insertion order
    alive,        \* the listener functions that have not been garbage collected
    stack,        \* the running Tx.send calls, innermost last
    timers,       \* the setTimeout queue of send_async, oldest first
    promise,      \* the promises send_async returned
    op,           \* the top-level call of the current job
    ret,          \* what the top-level call returned ("-" while it runs)
    out,          \* the function the top-level call returned, if it returned one
    channels,     \* Channel.#channels: host -> its channel, if it has one
    thrown,       \* the job ended by an exception nobody caught
    pre,          \* history: the content of the registry when the job began
    sends,        \* history: the Tx.send calls of the job, in call order
    calls,        \* history: the listener calls of the job, in call order
    removed,      \* history: the <<message, entry>> pairs removed during the job
    freed         \* history: the listeners the collector took while the job ran

vars == <<pool, subscribers, heap, alive, stack, timers, promise, op, ret,
          out, channels, thrown, pre, sends, calls, removed, freed>>

\* ------------------------------------------------- the entries of a Set
\* a function the user passed to on
FnL(fn) == [kind |-> "fn", fn |-> fn, msg |-> NoMsg, tid |-> 0]
\* the closure f that once(msg, fn) builds
OnceL(m, fn, t) == [kind |-> "once", fn |-> fn, msg |-> m, tid |-> t]
\* the closure f that onweak(msg, fn) builds; it holds fn by a WeakRef
WeakL(m, fn, t) == [kind |-> "weak", fn |-> fn, msg |-> m, tid |-> t]
\* new WeakRef(listener) of a function the user passed to onweak
RefL(fn) == [kind |-> "ref", fn |-> fn, msg |-> NoMsg, tid |-> 0]
\* a call that returns no function
NoOut == [kind |-> "none", fn |-> NoFn, msg |-> NoMsg, tid |-> 0]

Range(s) == {s[i] : i \in 1..Len(s)}

RECURSIVE IndexOf(_, _, _)
IndexOf(s, x, i) ==
    IF i > Len(s) THEN 0
    ELSE IF s[i] = x THEN i
    ELSE IndexOf(s, x, i + 1)

RemoveAt(s, p) == [i \in 1..(Len(s) - 1) |-> IF i < p THEN s[i] ELSE s[i + 1]]

\* a Set that were a list: add appends always
SetAddList(s, x) == Append(s, x)

\* Set.prototype.add: appends unless the value is already an element
SetAdd(s, x) == IF x \in Range(s) THEN s ELSE Append(s, x)

\* ------------------------------------------------- the state as a record
\* The operations below are functions from and to a record of the
\* variables a job changes, so that one step can chain several of them.
World ==
    [subscribers |-> subscribers, heap |-> heap, stack |-> stack,
     thrown |-> thrown, sends |-> sends, calls |-> calls, removed |-> removed]

\* the addresses the Map or a running send refers to
Referenced(w) ==
    ({w.subscribers[m] : m \in Msgs} \ {0})
        \cup {w.stack[i].set : i \in 1..Len(w.stack)}

\* new Set: the lowest address nothing refers to
NewSet(w) == CHOOSE s \in 1..MaxSets :
    /\ s \notin Referenced(w)
    /\ \A t \in 1..MaxSets : t \notin Referenced(w) => s <= t

\* a Set nothing refers to is garbage: its address is free again
Collect(w) ==
    [w EXCEPT !.heap = [s \in 1..MaxSets |->
        IF s \in Referenced(w) THEN w.heap[s] ELSE <<>>]]

\* the listeners of each message, in iteration order
Content(subs, hp) ==
    [m \in Msgs |-> IF subs[m] = 0 THEN <<>> ELSE hp[subs[m]]]

\* Channel.messages: the keys of the Map
messages == {m \in Msgs : subscribers[m] # 0}

\* ---------------------------------------------------------------- Rx
\* Rx.on: add to the Set of msg, or set a new Set
RxOn(w, m, l) ==
    IF w.subscribers[m] # 0
    THEN [w EXCEPT !.heap[w.subscribers[m]] = SetAdd(@, l)]
    ELSE LET s == NewSet(w) IN
         [w EXCEPT !.subscribers[m] = s, !.heap[s] = <<l>>]

\* an off that reports whether the message is known
OffResultAnyEntry(w, m, l) == w.subscribers[m] # 0

\* what Rx.off returns: !!subscribers.get(msg)?.delete(listener)
OffResult(w, m, l) ==
    /\ w.subscribers[m] # 0
    /\ l \in Range(w.heap[w.subscribers[m]])

\* an off that deletes the entry of the message with its last listener
RxOffDropsEmpty(w, m, l) ==
    IF w.subscribers[m] = 0 \/ l \notin Range(w.heap[w.subscribers[m]]) THEN w
    ELSE LET s == w.subscribers[m]
             p == IndexOf(w.heap[s], l, 1)
         IN [w EXCEPT
                !.heap[s] = RemoveAt(@, p),
                !.subscribers[m] = IF Len(w.heap[s]) = 1 THEN 0 ELSE s,
                !.stack = [i \in 1..Len(w.stack) |->
                    IF w.stack[i].set = s /\ w.stack[i].idx >= p
                    THEN [w.stack[i] EXCEPT !.idx = @ - 1]
                    ELSE w.stack[i]],
                !.removed = @ \cup {<<m, l>>}]

\* Rx.off: Set.prototype.delete on the Set of msg, if there is one.  The
\* Map entry stays.  An iterator that has passed the deleted element has
\* one element less behind it.
RxOff(w, m, l) ==
    IF ~OffResult(w, m, l) THEN w
    ELSE LET s == w.subscribers[m]
             p == IndexOf(w.heap[s], l, 1)
         IN [w EXCEPT
                !.heap[s] = RemoveAt(@, p),
                !.stack = [i \in 1..Len(w.stack) |->
                    IF w.stack[i].set = s /\ w.stack[i].idx >= p
                    THEN [w.stack[i] EXCEPT !.idx = @ - 1]
                    ELSE w.stack[i]],
                !.removed = @ \cup {<<m, l>>}]

\* an off_all that drops the entries of all messages
RxOffAllEverything(w, m) ==
    [w EXCEPT !.subscribers = [x \in Msgs |-> 0],
              !.removed = @ \cup
                  UNION {{<<x, l>> : l \in Range(Content(w.subscribers, w.heap)[x])}
                         : x \in Msgs}]

\* what Rx.off_all returns: subscribers.delete(msg)
OffAllResult(w, m) == w.subscribers[m] # 0

\* Rx.off_all: Map.prototype.delete; the Set object itself is not changed
RxOffAll(w, m) ==
    [w EXCEPT !.subscribers[m] = 0,
              !.removed = @ \cup
                  {<<m, l>> : l \in Range(Content(w.subscribers, w.heap)[m])}]

\* a clear that drops the entry of one message only
ChClearOne(w) == RxOffAll(w, "m1")

\* a clear that also empties the Set objects, under the loops walking them
ChClearSets(w) ==
    [w EXCEPT !.subscribers = [m \in Msgs |-> 0],
              !.heap = [s \in 1..MaxSets |-> <<>>],
              !.removed = @ \cup
                  UNION {{<<m, l>> : l \in Range(Content(w.subscribers, w.heap)[m])}
                         : m \in Msgs}]

\* Channel.clear: Map.prototype.clear; the Set objects are not changed
ChClear(w) ==
    [w EXCEPT !.subscribers = [m \in Msgs |-> 0],
              !.removed = @ \cup
                  UNION {{<<m, l>> : l \in Range(Content(w.subscribers, w.heap)[m])}
                         : m \in Msgs}]

\* the closures once / onweak have built that are still in a Set
Trampolines(w) ==
    {l \in UNION {Range(w.heap[s]) : s \in Referenced(w)} : l.kind # "fn"}

\* once and onweak with one closure for all their calls
NewTidShared(w) == 1

\* the closures the job knows: those in the Sets and those its histories
\* name, which were called or removed earlier in the job
KnownTrampolines(w) ==
    Trampolines(w)
    \cup {l \in {w.calls[k].via : k \in 1..Len(w.calls)} : l.kind # "fn"}
    \cup {l \in {x[2] : x \in w.removed} : l.kind # "fn"}
    \cup {l \in UNION {Range(w.sends[i].start) : i \in 1..Len(w.sends)} :
             l.kind # "fn"}

\* the identity of the closure a call of once / onweak builds, a new
\* function object: the lowest number no closure the job knows has
NewTid(w) == CHOOSE t \in 1..(Cardinality(KnownTrampolines(w)) + 1) :
    /\ \A l \in KnownTrampolines(w) : l.tid # t
    /\ \A u \in 1..(t - 1) : \E l \in KnownTrampolines(w) : l.tid = u

\* Rx.once: on(msg, f) with f a new closure over msg and listener
RxOnce(w, m, fn) == RxOn(w, m, OnceL(m, fn, NewTid(w)))

\* Rx.onweak: on(msg, f) with f a new closure over msg and a WeakRef
RxOnWeak(w, m, fn) == RxOn(w, m, WeakL(m, fn, NewTid(w)))

\* what on returns: the function it was given
OnReturn(l) == l

\* what once returns: what this.on(msg, f) returned for its closure f
OnceReturn(w, m, fn) == OnReturn(OnceL(m, fn, NewTid(w)))

\* what onweak returns: in src/src/index.ts the listener it was given, not
\* the WeakRef it made; in src/unnamed/part_001 (lines 1-185) the WeakRef
OnWeakReturn(b, fn) == IF b = "part_001" THEN RefL(fn) ELSE FnL(fn)

\* ---------------------------------------------------------------- Tx
\* send without the test of listeners.size
NoSetOnlyAbsent(w, m) == w.subscribers[m] = 0

\* a send that looks for a listener it can call: a Set of dead onweak
\* closures counts as empty
NoSetNoLive(w, m) ==
    \/ w.subscribers[m] = 0
    \/ \A l \in Range(w.heap[w.subscribers[m]]) :
           l.kind = "weak" /\ l.fn \notin alive

\* the test of Tx.send: no Set under msg, or an empty one
NoSet(w, m) == w.subscribers[m] = 0 \/ Len(w.heap[w.subscribers[m]]) = 0

\* Tx.send up to the for-of loop: get the Set of msg; without a Set or
\* with an empty one return false, else start iterating the Set
TxSend(w, m, a) ==
    IF NoSet(w, m)
    THEN [w EXCEPT !.sends = Append(@,
             [msg |-> m, args |-> a, start |-> <<>>, depth |-> Len(w.stack) + 1,
              done |-> TRUE, ret |-> "false"])]
    ELSE [w EXCEPT
             !.stack = Append(@,
                 [msg |-> m, args |-> a, set |-> w.subscribers[m], idx |-> 0,
                  sid |-> Len(w.sends) + 1]),
             !.sends = Append(@,
                 [msg |-> m, args |-> a, start |-> w.heap[w.subscribers[m]],
                  depth |-> Len(w.stack) + 1, done |-> FALSE, ret |-> "-"])]

\* a send that catches what its listeners throw and goes on
ThrowSwallowed(w) == w

\* throw in a listener: neither the loop of Tx.send nor the closures of
\* once and onweak catch anything, so the exception leaves every running
\* send and ends the job
Throw(w) == [w EXCEPT !.stack = <<>>, !.thrown = TRUE]

\* The bodies of the user's listeners.  A and B only take the call; S
\* sends "b" on m1 when it is called with "a"; F unsubscribes A from m1; N
\* subscribes B to m1; C clears the channel; T throws; O subscribes itself
\* once more to m1.
Script(w, fn, a) ==
    CASE fn = "S" /\ a = "a" -> TxSend(w, "m1", "b")
      [] fn = "F" -> RxOff(w, "m1", FnL("A"))
      [] fn = "N" -> RxOn(w, "m1", FnL("B"))
      [] fn = "C" -> ChClear(w)
      [] fn = "T" -> Throw(w)
      [] fn = "O" -> RxOnce(w, "m1", "O")
      [] OTHER -> w

\* listener(...args): the call is logged with the send it belongs to and
\* the Set entry it came through, then the listener's body runs
CallUser(w, cb, a, sid) ==
    Script([w EXCEPT !.calls = Append(@,
               [fn |-> cb.fn, args |-> a, sid |-> sid, via |-> cb])],
           cb.fn, a)

\* a send that drops every listener it has called
InvokeAllOnce(w, cb, a, sid, live) ==
    CallUser(RxOff(w, sends[sid].msg, cb), cb, a, sid)

\* an onweak whose closure keeps the listener itself: it is called whether
\* or not anything else still holds it, and is never evicted
InvokeWeakHeld(w, cb, a, sid, live) ==
    IF cb.kind = "once" THEN CallUser(RxOff(w, cb.msg, cb), cb, a, sid)
    ELSE CallUser(w, cb, a, sid)

\* a once whose closure calls the listener first and removes itself when
\* the listener has returned
InvokeOnceOffAfter(w, cb, a, sid, live) ==
    CASE cb.kind = "fn" -> CallUser(w, cb, a, sid)
      [] cb.kind = "once" ->
            LET v == CallUser(w, cb, a, sid) IN
            IF v.thrown THEN v ELSE RxOff(v, cb.msg, cb)
      [] cb.kind = "weak" ->
            IF cb.fn \in live THEN CallUser(w, cb, a, sid)
            ELSE RxOff(w, cb.msg, cb)

\* cb(...args) for an entry of the Set: a user function is called; the
\* once closure f does off(msg, f) and calls the listener; the onweak
\* closure f calls ref.deref() if that is a function, else off(msg, f)
Invoke(w, cb, a, sid, live) ==
    CASE cb.kind = "fn" -> CallUser(w, cb, a, sid)
      [] cb.kind = "once" -> CallUser(RxOff(w, cb.msg, cb), cb, a, sid)
      [] cb.kind = "weak" ->
            IF cb.fn \in live THEN CallUser(w, cb, a, sid)
            ELSE RxOff(w, cb.msg, cb)

\* One turn of the for-of loop of the innermost running send: the Set
\* iterator yields the next element and it is called, or the iterator is
\* done and send returns true.
LoopTurn(w, live) ==
    LET n == Len(w.stack)
        f == w.stack[n]
    IN IF f.idx >= Len(w.heap[f.set])
       THEN [w EXCEPT !.stack = SubSeq(@, 1, n - 1),
                      !.sends[f.sid].done = TRUE,
                      !.sends[f.sid].ret = "true"]
       ELSE Invoke([w EXCEPT !.stack[n].idx = f.idx + 1],
                   w.heap[f.set][f.idx + 1], f.args, f.sid, live)

\* ------------------------------------------------------------- the jobs
\* the call that started the job; for a timer callback, had tells whether
\* the message had listeners when send_async was called
Op(name, m, fn, a, pid) ==
    [name |-> name, msg |-> m, fn |-> fn, args |-> a, pid |-> pid,
     had |-> FALSE, host |-> NoHost]

\* the state a job starts from: the histories of the previous job are gone
Fresh ==
    [World EXCEPT !.thrown = FALSE, !.sends = <<>>, !.calls = <<>>,
                  !.removed = {}]

\* the registry and the table of channels as the job finds them
Snapshot ==
    [keys |-> messages, content |-> Content(subscribers, heap),
     channels |-> channels]

Commit(w) ==
    LET c == Collect(w) IN
    /\ subscribers' = c.subscribers
    /\ heap' = c.heap
    /\ stack' = c.stack
    /\ thrown' = c.thrown
    /\ sends' = c.sends
    /\ calls' = c.calls
    /\ removed' = c.removed

Idle == stack = <<>>

\* the number of entries of the Sets of the Map
Subs == LET c == Content(subscribers, heap) IN
    Cardinality({<<m, i>> \in Msgs \X (1..(MaxSubs + 1)) : i <= Len(c[m])})

\* room in the registry for one more subscription
Room == Subs < MaxSubs

\* a promise the model is not waiting for
FreePids == {p \in 1..MaxTimers : promise[p] # "pending"}

\* a settled promise is followed until the next job starts
Forget == [p \in 1..MaxTimers |->
    IF promise[p] = "pending" THEN "pending" ELSE "free"]

\* rx.on(m, fn)
On(m, fn) ==
    /\ Idle
    /\ fn \in pool.on \cap alive
    /\ Room \/ FnL(fn) \in Range(Content(subscribers, heap)[m])
    /\ Commit(RxOn(Fresh, m, FnL(fn)))
    /\ op' = Op("on", m, fn, NoArg, 0)
    /\ out' = OnReturn(FnL(fn))
    /\ ret' = "listener"
    /\ pre' = Snapshot
    /\ freed' = {}
    /\ promise' = Forget
    /\ UNCHANGED <<pool, alive, timers, channels>>

\* rx.once(m, fn)
Once(m, fn) ==
    /\ Idle
    /\ fn \in pool.once \cap alive
    /\ Room
    /\ Cardinality(Trampolines(World)) < MaxTramp
    /\ Commit(RxOnce(Fresh, m, fn))
    /\ op' = Op("once", m, fn, NoArg, 0)
    /\ out' = OnceReturn(Fresh, m, fn)
    /\ ret' = "listener"
    /\ pre' = Snapshot
    /\ freed' = {}
    /\ promise' = Forget
    /\ UNCHANGED <<pool, alive, timers, channels>>

\* rx.onweak(m, fn)
OnWeak(m, fn) ==
    /\ Idle
    /\ fn \in pool.weak \cap alive
    /\ Room
    /\ Cardinality(Trampolines(World)) < MaxTramp
    /\ Commit(RxOnWeak(Fresh, m, fn))
    /\ op' = Op("onweak", m, fn, NoArg, 0)
    /\ out' = OnWeakReturn(pool.build, fn)
    /\ ret' = "listener"
    /\ pre' = Snapshot
    /\ freed' = {}
    /\ promise' = Forget
    /\ UNCHANGED <<pool, alive, timers, channels>>

\* rx.off(m, fn)
Off(m, fn) ==
    /\ Idle
    /\ fn \in (pool.on \cup pool.once \cup pool.weak) \cap alive
    /\ Commit(RxOff(Fresh, m, FnL(fn)))
    /\ op' = Op("off", m, fn, NoArg, 0)
    /\ out' = NoOut
    /\ ret' = IF OffResult(Fresh, m, FnL(fn)) THEN "true" ELSE "false"
    /\ pre' = Snapshot
    /\ freed' = {}
    /\ promise' = Forget
    /\ UNCHANGED <<pool, alive, timers, channels>>

\* rx.off_all(m)
OffAll(m) ==
    /\ Idle
    /\ pool.build = "part_001"
    /\ Commit(RxOffAll(Fresh, m))
    /\ op' = Op("off_all", m, NoFn, NoArg, 0)
    /\ out' = NoOut
    /\ ret' = IF OffAllResult(Fresh, m) THEN "true" ELSE "false"
    /\ pre' = Snapshot
    /\ freed' = {}
    /\ promise' = Forget
    /\ UNCHANGED <<pool, alive, timers, channels>>

\* channel.clear()
Clear ==
    /\ Idle
    /\ Commit(ChClear(Fresh))
    /\ op' = Op("clear", NoMsg, NoFn, NoArg, 0)
    /\ out' = NoOut
    /\ ret' = "void"
    /\ pre' = Snapshot
    /\ freed' = {}
    /\ promise' = Forget
    /\ UNCHANGED <<pool, alive, timers, channels>>

\* tx.send(m, a): the call up to the first turn of its loop
Send(m, a) ==
    /\ Idle
    /\ LET w == TxSend(Fresh, m, a) IN
       /\ Commit(w)
       /\ out' = NoOut
       /\ ret' = IF w.stack = <<>> THEN "false" ELSE "-"
    /\ op' = Op("send", m, NoFn, a, 0)
    /\ pre' = Snapshot
    /\ freed' = {}
    /\ promise' = Forget
    /\ UNCHANGED <<pool, alive, timers, channels>>

\* a send_async that also sends before it returns
AsyncCallSendsNow(m, a) == TxSend(Fresh, m, a)

\* what the call of send_async does to the channel: the executor of its
\* Promise only calls setTimeout, the send is inside the timer callback
AsyncCall(m, a) == Fresh

\* tx.send_async(m, a): new Promise whose executor calls setTimeout
SendAsync(m, a) ==
    /\ Idle
    /\ FreePids # {}
    /\ LET p == CHOOSE q \in FreePids : \A r \in FreePids : q <= r IN
       /\ timers' = Append(timers,
              [msg |-> m, args |-> a, pid |-> p, had |-> ~NoSet(World, m)])
       /\ promise' = [Forget EXCEPT ![p] = "pending"]
       /\ op' = Op("send_async", m, NoFn, a, p)
    /\ Commit(AsyncCall(m, a))
    /\ out' = NoOut
    /\ ret' = "promise"
    /\ pre' = Snapshot
    /\ freed' = {}
    /\ UNCHANGED <<pool, alive, channels>>

\* a send_async that decides when it is called whether there is anything to
\* send: without listeners then, it resolves false
DeferredAtCall(t) ==
    IF t.had THEN TxSend(Fresh, t.msg, t.args)
    ELSE [Fresh EXCEPT !.sends = Append(@,
             [msg |-> t.msg, args |-> t.args, start |-> <<>>, depth |-> 1,
              done |-> TRUE, ret |-> "false"])]

\* this.send(msg, ...args) of the timer callback: it reads the registry
\* when the timer fires
Deferred(t) == TxSend(Fresh, t.msg, t.args)

\* an event loop that runs the newest timer first
DueNewest(q) == Len(q)

\* the place in the queue of the timer the event loop runs next: timers
\* of the same delay, here 0, run in the order of their setTimeout calls
Due(q) == 1

\* the timer callback () => resolve(this.send(msg, ...args)), up to the
\* first turn of the loop of its send
Timeout ==
    /\ Idle
    /\ timers # <<>>
    /\ LET t == timers[Due(timers)]
           w == Deferred(t)
       IN /\ Commit(w)
          /\ promise' = IF w.stack = <<>>
                        THEN [Forget EXCEPT ![t.pid] = "false"]
                        ELSE Forget
          /\ out' = NoOut
          /\ ret' = IF w.stack = <<>> THEN "void" ELSE "-"
          /\ op' = [Op("timeout", t.msg, NoFn, t.args, t.pid) EXCEPT
                       !.had = t.had]
    /\ timers' = RemoveAt(timers, Due(timers))
    /\ pre' = Snapshot
    /\ freed' = {}
    /\ UNCHANGED <<pool, alive, channels>>

\* the running job goes on by one turn of the loop of its innermost send.
\* The outermost send returning ends the job: tx.send returns true to the
\* user, or the timer callback passes true to resolve.  An exception ends
\* the job where it is: the promise of a timer callback is left as it was.
Turn ==
    /\ ~Idle
    /\ Len(calls) < MaxCalls
    /\ LET w == LoopTurn(World, alive) IN
       /\ Commit(w)
       /\ ret' = IF w.thrown THEN "throw"
                 ELSE IF w.stack # <<>> THEN "-"
                 ELSE IF op.name = "timeout" THEN "void"
                 ELSE "true"
       /\ promise' = IF w.stack = <<>> /\ ~w.thrown /\ op.name = "timeout"
                     THEN [promise EXCEPT ![op.pid] = "true"]
                     ELSE promise
    /\ UNCHANGED <<pool, alive, timers, op, pre, out, channels, freed>>

\* the functions something holds strongly: the entries of on, in this
\* channel and in the channels of the hosts, the closures of once, and what
\* the bodies of the user's functions name
Held(fn) ==
    \/ \E s \in Referenced(World) : \E l \in Range(heap[s]) :
           l.fn = fn /\ l.kind \in {"fn", "once"}
    \/ \E h \in Hosts, m \in Msgs : FnL(fn) \in Range(channels[h].reg[m])
    \/ fn = "A" /\ "F" \in alive
    \/ fn = "B" /\ "N" \in alive

\* what the running job keeps alive: WeakRef.deref() gave the function to
\* the closure of onweak that called it, and what deref() has given stays
\* until the job ends
Kept(fn) ==
    \E k \in 1..Len(calls) : calls[k].via.kind = "weak" /\ calls[k].fn = fn

\* the user has let go of fn and the collector frees it: from now on
\* WeakRef.deref() gives undefined.  The collector runs when it likes:
\* between two jobs, or inside a send between two calls of its loop, where
\* it changes nothing but what deref() gives.
Release(fn) ==
    /\ fn \in pool.drop \cap alive
    /\ ~Held(fn)
    /\ alive' = alive \ {fn}
    /\ IF Idle
       THEN /\ Commit(Fresh)
            /\ op' = Op("release", NoMsg, fn, NoArg, 0)
            /\ out' = NoOut
            /\ ret' = "void"
            /\ pre' = Snapshot
            /\ freed' = {}
            /\ promise' = Forget
            /\ UNCHANGED <<pool, timers, channels>>
       ELSE /\ ~Kept(fn)
            /\ freed' = freed \cup {fn}
            /\ UNCHANGED <<pool, subscribers, heap, stack, timers, promise,
                           op, ret, out, channels, thrown, pre, sends, calls,
                           removed>>

\* ------------------------------------------- the static table of channels
\* a host without a channel, and the subscribers of a new Channel
NoSubscribers == [m \in Msgs |-> <<>>]
NoChannel == [has |-> FALSE, reg |-> NoSubscribers]

\* Channel.has(target)
StaticHas(ch, h) == ch[h].has

\* Channel.add(target): #channels.set(target, new Channel), whatever the
\* table holds for target
StaticAdd(ch, h) == [ch EXCEPT ![h] = [has |-> TRUE, reg |-> NoSubscribers]]

\* Channel.get(target): #channels.get(target)!.#subscribers reads a property
\* of undefined when the table has nothing for target
StaticGetThrows(ch, h) == ~ch[h].has

\* a top-level call that leaves this channel alone
Aside ==
    /\ Commit(Fresh)
    /\ pre' = Snapshot
    /\ freed' = {}
    /\ promise' = Forget
    /\ UNCHANGED <<pool, alive, timers>>

ChannelHas(h) ==
    /\ Idle
    /\ pool.build = "index"
    /\ ret' = IF StaticHas(channels, h) THEN "true" ELSE "false"
    /\ op' = [Op("has", NoMsg, NoFn, NoArg, 0) EXCEPT !.host = h]
    /\ out' = NoOut
    /\ Aside
    /\ UNCHANGED channels

ChannelAdd(h) ==
    /\ Idle
    /\ pool.build = "index"
    /\ channels' = StaticAdd(channels, h)
    /\ ret' = "void"
    /\ op' = [Op("add", NoMsg, NoFn, NoArg, 0) EXCEPT !.host = h]
    /\ out' = NoOut
    /\ Aside

ChannelGet(h) ==
    /\ Idle
    /\ pool.build = "index"
    /\ ret' = IF StaticGetThrows(channels, h) THEN "throw" ELSE "subscribers"
    /\ op' = [Op("get", NoMsg, NoFn, NoArg, 0) EXCEPT !.host = h]
    /\ Commit([Fresh EXCEPT !.thrown = StaticGetThrows(channels, h)])
    /\ pre' = Snapshot
    /\ freed' = {}
    /\ promise' = Forget
    /\ out' = NoOut
    /\ UNCHANGED <<pool, alive, timers, channels>>

\* the entries of the Sets of the channel of a host
HostSubs(h) ==
    Cardinality({<<m, i>> \in Msgs \X (1..(MaxSubs + 1)) :
                    i <= Len(channels[h].reg[m])})

\* new Rx(Channel.get(h)).on(m, fn), by a user that added h before
HostOn(h, m, fn) ==
    /\ Idle
    /\ pool.build = "index"
    /\ StaticHas(channels, h)
    /\ fn \in pool.on \cap alive
    /\ HostSubs(h) < MaxSubs \/ FnL(fn) \in Range(channels[h].reg[m])
    /\ channels' = [channels EXCEPT ![h].reg[m] = SetAdd(@, FnL(fn))]
    /\ ret' = "listener"
    /\ op' = [Op("on", m, fn, NoArg, 0) EXCEPT !.host = h]
    /\ out' = OnReturn(FnL(fn))
    /\ Aside

\* the functions the user of the run has
Known(u) == u.on \cup u.once \cup u.weak

\* new Channel, and a user u
InitWith(u) ==
    /\ pool = u
    /\ alive = Known(u)
    /\ subscribers = [m \in Msgs |-> 0]
    /\ heap = [s \in 1..MaxSets |-> <<>>]
    /\ stack = <<>>
    /\ timers = <<>>
    /\ promise = [p \in 1..MaxTimers |-> "free"]
    /\ op = Op("new", NoMsg, NoFn, NoArg, 0)
    /\ ret = "void"
    /\ out = NoOut
    /\ channels = [h \in Hosts |-> NoChannel]
    /\ thrown = FALSE
    /\ pre = [keys |-> {}, content |-> [m \in Msgs |-> <<>>],
              channels |-> [h \in Hosts |-> NoChannel]]
    /\ sends = <<>>
    /\ calls = <<>>
    /\ removed = {}
    /\ freed = {}

\* the user of the README: a handle for on, a lambda for once, a lambda
\* for onweak that goes out of scope
Init == InitWith([on |-> {"A", "B"}, once |-> {"A"}, weak |-> {"B"},
                  drop |-> {"B"}, build |-> "index"])

\* a user whose listeners send and clear from inside a send
InitNested == InitWith([on |-> {"S", "C"}, once |-> {"A"}, weak |-> {},
                        drop |-> {}, build |-> "index"])

\* a user of send_async, with a listener that throws
InitAsync == InitWith([on |-> {"A", "T"}, once |-> {}, weak |-> {},
                        drop |-> {}, build |-> "index"])

\* the calls of the user and the turns of a running send
Next ==
    \/ \E m \in Msgs, fn \in Fns : On(m, fn)
    \/ \E m \in Msgs, fn \in Fns : Once(m, fn)
    \/ \E m \in Msgs, fn \in Fns : OnWeak(m, fn)
    \/ \E m \in Msgs, fn \in Fns : Off(m, fn)
    \/ Clear
    \/ \E m \in Msgs, a \in Args : Send(m, a)
    \/ Turn
    \/ \E fn \in Fns : Release(fn)

Spec == Init /\ [][Next]_vars

\* a user that passes one lambda to once and to onweak and keeps no handle
\* of it, beside a listener it keeps
InitWeak == InitWith([on |-> {"A"}, once |-> {"B"}, weak |-> {"B"},
                      drop |-> {"B"}, build |-> "index"])

SpecWeak == InitWeak /\ [][Next]_vars

\* the user of the README on the build that has off_all
InitOffAll == InitWith([on |-> {"A", "B"}, once |-> {"A"}, weak |-> {"B"},
                        drop |-> {"B"}, build |-> "part_001"])

\* the calls of that build
NextOffAll ==
    \/ \E m \in Msgs, fn \in Fns : On(m, fn)
    \/ \E m \in Msgs, fn \in Fns : Once(m, fn)
    \/ \E m \in Msgs, fn \in Fns : OnWeak(m, fn)
    \/ \E m \in Msgs, fn \in Fns : Off(m, fn)
    \/ \E m \in Msgs : OffAll(m)
    \/ Clear
    \/ \E m \in Msgs, a \in Args : Send(m, a)
    \/ Turn
    \/ \E fn \in Fns : Release(fn)

SpecOffAll == InitOffAll /\ [][NextOffAll]_vars

\* the same without onweak and the collector
NextStrong ==
    \/ \E m \in Msgs, fn \in Fns : On(m, fn)
    \/ \E m \in Msgs, fn \in Fns : Once(m, fn)
    \/ \E m \in Msgs, fn \in Fns : Off(m, fn)
    \/ Clear
    \/ \E m \in Msgs, a \in Args : Send(m, a)
    \/ Turn

SpecNested == InitNested /\ [][NextStrong]_vars

\* on, off, and send_async (of one payload) with its timers
NextAsync ==
    \/ \E m \in Msgs, fn \in Fns : On(m, fn)
    \/ \E m \in Msgs, fn \in Fns : Off(m, fn)
    \/ \E m \in Msgs : SendAsync(m, "a")
    \/ Timeout
    \/ Turn

SpecAsync == InitAsync /\ [][NextAsync]_vars

\* a user with a listener that throws, subscribed with on and with once
InitThrow == InitWith([on |-> {"A", "T"}, once |-> {"A", "T"}, weak |-> {},
                       drop |-> {}, build |-> "index"])

SpecThrow == InitThrow /\ [][NextStrong]_vars

\* a user whose listeners unsubscribe and subscribe others during a send
InitLive == InitWith([on |-> {"A", "F", "N"}, once |-> {"A"}, weak |-> {},
                      drop |-> {}, build |-> "index"])

SpecLive == InitLive /\ [][NextStrong]_vars

\* a user with a listener that clears the channel during a send
InitClear == InitWith([on |-> {"A", "C"}, once |-> {"A"}, weak |-> {},
                       drop |-> {}, build |-> "index"])

SpecClear == InitClear /\ [][NextStrong]_vars

\* a user whose one-shot listener subscribes itself again when it fires
InitLoop == InitWith([on |-> {"A"}, once |-> {"O"}, weak |-> {},
                       drop |-> {}, build |-> "index"])

SpecLoop == InitLoop /\ [][NextStrong]_vars

\* a user of send_async whose listeners do nothing else
InitFifo == InitWith([on |-> {"A", "B"}, once |-> {}, weak |-> {},
                       drop |-> {}, build |-> "index"])

SpecFifo == InitFifo /\ [][NextAsync]_vars

\* rx.off(m, r) with r the function the call before returned
OffReturned(m) ==
    /\ Idle
    /\ out # NoOut
    /\ Commit(RxOff(Fresh, m, out))
    /\ ret' = IF OffResult(Fresh, m, out) THEN "true" ELSE "false"
    /\ out' = NoOut
    /\ op' = Op("off_returned", m, out.fn, NoArg, 0)
    /\ pre' = Snapshot
    /\ freed' = {}
    /\ promise' = Forget
    /\ UNCHANGED <<pool, alive, timers, channels>>

\* a user that unsubscribes with what on and once returned
InitHandles == InitWith([on |-> {"A", "B"}, once |-> {"A"}, weak |-> {},
                         drop |-> {}, build |-> "index"])

NextHandles ==
    \/ \E m \in Msgs, fn \in Fns : On(m, fn)
    \/ \E m \in Msgs, fn \in Fns : Once(m, fn)
    \/ \E m \in Msgs : OffReturned(m)
    \/ \E m \in Msgs, a \in Args : Send(m, a)
    \/ Turn

SpecHandles == InitHandles /\ [][NextHandles]_vars

\* a user that keeps channels for its objects
InitHosts == InitWith([on |-> {"A", "B"}, once |-> {}, weak |-> {},
                        drop |-> {}, build |-> "index"])

NextHosts ==
    \/ \E h \in Hosts : ChannelHas(h)
    \/ \E h \in Hosts : ChannelAdd(h)
    \/ \E h \in Hosts : ChannelGet(h)
    \/ \E h \in Hosts, m \in Msgs, fn \in Fns : HostOn(h, m, fn)

SpecHosts == InitHosts /\ [][NextHosts]_vars

TypeOK ==
    /\ pool.build \in Builds
    /\ alive \subseteq Known(pool)
    /\ \A m \in Msgs : subscribers[m] \in 0..MaxSets

\* ------------------------------------------------------------ the claims
Cur == Content(subscribers, heap)

\* the calls send number i of the job made through the Set entry l
Via(i, l) == {k \in 1..Len(calls) : calls[k].sid = i /\ calls[k].via = l}

\* C1: a send on a message without subscribers (no entry, or an entry whose
\* Set is empty) returns false at once, calls no listener and leaves the
\* registry as it was, without a new entry.
C1_SendWithoutSubscribers ==
    /\ \A i \in 1..Len(sends) :
           sends[i].start = <<>> =>
               /\ sends[i].done
               /\ sends[i].ret = "false"
               /\ \A k \in 1..Len(calls) : calls[k].sid # i
    /\ op.name = "send" /\ pre.content[op.msg] = <<>> =>
           /\ Idle
           /\ ret = "false"
           /\ calls = <<>>
           /\ Snapshot = pre

\* a send on a message whose listeners were all removed, which still has
\* its (empty) entry
C1_Witness ==
    /\ op.name = "send"
    /\ op.msg \in pre.keys
    /\ pre.content[op.msg] = <<>>
    /\ ret = "false"

\* C2: a send that returns has called every function subscribed with on
\* that was in the Set when it began and was not removed meanwhile exactly
\* once, with the arguments of the send, and returns true; the function is
\* still subscribed afterwards.  A function subscribed with on leaves the
\* registry only in a job that removes it, which for a user whose listeners
\* do not unsubscribe or clear is off, off_all or clear.
C2_PersistentDelivery ==
    /\ \A i \in 1..Len(sends) :
           sends[i].done /\ sends[i].start # <<>> =>
               /\ sends[i].ret = "true"
               /\ \A l \in Range(sends[i].start) :
                      l.kind = "fn" /\ <<sends[i].msg, l>> \notin removed =>
                          /\ Cardinality(Via(i, l)) = 1
                          /\ \A k \in Via(i, l) :
                                 /\ calls[k].args = sends[i].args
                                 /\ calls[k].fn = l.fn
                          /\ l \in Range(Cur[sends[i].msg])
    /\ \A m \in Msgs : \A l \in Range(pre.content[m]) :
           l.kind = "fn" /\ l \notin Range(Cur[m]) =>
               /\ <<m, l>> \in removed
               /\ \/ op.name \in {"off", "off_all", "clear"}
                  \/ pool.on \cap {"F", "C"} # {}

\* a send over two or more listeners has returned true and A, subscribed
\* with on, is among them
C2_Witness ==
    /\ op.name = "send"
    /\ Idle
    /\ ret = "true"
    /\ Len(sends[1].start) >= 2
    /\ FnL("A") \in Range(sends[1].start)
    /\ FnL("A") \in Range(Cur[op.msg])

\* C3: on is idempotent per (message, listener): a Set never holds an entry
\* twice; on(m, L) with L already subscribed to m changes nothing; a send
\* calls a function subscribed with on at most once; after off(m, L) the
\* function is not in the Set of m.
C3_OnIdempotent ==
    /\ \A s \in 1..MaxSets : Cardinality(Range(heap[s])) = Len(heap[s])
    /\ op.name = "on" /\ FnL(op.fn) \in Range(pre.content[op.msg]) =>
           Snapshot = pre
    /\ \A i \in 1..Len(sends) : \A l \in Range(sends[i].start) :
           l.kind = "fn" => Cardinality(Via(i, l)) <= 1
    /\ op.name = "off" => FnL(op.fn) \notin Range(Cur[op.msg])

\* on(m, L) was called with L already subscribed to m, next to another entry
C3_Witness ==
    /\ op.name = "on"
    /\ FnL(op.fn) \in Range(pre.content[op.msg])
    /\ Len(pre.content[op.msg]) >= 2

\* C4: a one-shot subscription fires at most once: no job calls a listener
\* twice through the same closure of once, whatever sends the listeners
\* themselves issue.
C4_OnceAtMostOnce ==
    \A j \in 1..Len(calls) : \A k \in 1..Len(calls) :
        j < k /\ calls[j].via.kind = "once" => calls[j].via # calls[k].via

\* C5: off(m, L) returns true iff m has an entry and L is in its Set; it
\* never throws; afterwards L is not subscribed to m (so a second off
\* returns false) and nothing else has changed.
C5_Off ==
    op.name = "off" =>
        /\ ret \in {"true", "false"}
        /\ ~thrown
        /\ ret = "true" <=>
               /\ op.msg \in pre.keys
               /\ FnL(op.fn) \in Range(pre.content[op.msg])
        /\ FnL(op.fn) \notin Range(Cur[op.msg])
        /\ messages = pre.keys
        /\ \A m \in Msgs : m # op.msg => Cur[m] = pre.content[m]
        /\ \A l \in Range(pre.content[op.msg]) :
               l # FnL(op.fn) => l \in Range(Cur[op.msg])
        /\ Len(Cur[op.msg]) =
               Len(pre.content[op.msg]) - (IF ret = "true" THEN 1 ELSE 0)

\* an off that removed one of several listeners
C5_Witness ==
    /\ op.name = "off"
    /\ ret = "true"
    /\ Len(pre.content[op.msg]) >= 2

\* the same for a listener that is not there
C5_WitnessAbsent ==
    /\ op.name = "off"
    /\ ret = "false"
    /\ op.msg \in pre.keys

\* what holds after off_all(m)
AfterOffAll ==
    /\ ret = "true" <=> op.msg \in pre.keys
    /\ op.msg \notin messages
    /\ Cur[op.msg] = <<>>
    /\ \A m \in Msgs : m # op.msg =>
           /\ Cur[m] = pre.content[m]
           /\ m \in messages <=> m \in pre.keys

\* C6: off_all(m) returns true iff m had an entry, removes the entry with
\* all its listeners whatever their kind, leaves the other messages as they
\* were, and a send(m) that follows returns false and calls nothing.
C6_OffAll ==
    [][/\ op'.name = "off_all" => AfterOffAll'
       /\ op.name = "off_all" /\ op'.name = "send" /\ op'.msg = op.msg =>
              /\ ret' = "false"
              /\ calls' = <<>>
              /\ stack' = <<>>]_vars

\* off_all removed a once closure and an onweak closure of a message while
\* another message has a listener
C6_Witness ==
    /\ op.name = "off_all"
    /\ ret = "true"
    /\ {l.kind : l \in Range(pre.content[op.msg])} = {"once", "weak"}
    /\ \E m \in Msgs : m # op.msg /\ Cur[m] # <<>>

\* C7: after clear() the registry has no message and no listener, and a
\* send that follows, on any message, returns false and calls nothing.
C7_Clear ==
    [][/\ op'.name = "clear" =>
              /\ messages' = {}
              /\ \A m \in Msgs : Cur'[m] = <<>>
              /\ \A s \in 1..MaxSets : heap'[s] = <<>>
       /\ op.name = "clear" /\ op'.name = "send" =>
              /\ ret' = "false"
              /\ calls' = <<>>
              /\ stack' = <<>>]_vars

\* clear was called with listeners of the three kinds, on both messages
C7_Witness ==
    /\ op.name = "clear"
    /\ {l.kind : l \in UNION {Range(pre.content[m]) : m \in Msgs}} =
           {"fn", "once", "weak"}
    /\ pre.keys = Msgs

\* C8: whatever a send calls through a closure of onweak is alive, and
\* stays alive to the end of the job.  A send that returns has called the
\* listener of every onweak closure of its Set whose listener is alive
\* once, with its arguments, and the closure stays; it has not called
\* through a closure whose listener is dead, whether it died before the
\* send or inside it ahead of the closure, and that closure is out of the
\* Set.  A closure of a live listener leaves the registry only by off_all
\* or clear.
C8_Weak ==
    /\ \A k \in 1..Len(calls) :
           calls[k].via.kind = "weak" =>
               calls[k].fn \in alive /\ calls[k].fn \notin freed
    /\ \A i \in 1..Len(sends) :
           sends[i].done /\ sends[i].start # <<>> =>
               \A l \in Range(sends[i].start) : l.kind = "weak" =>
                   IF l.fn \in alive
                   THEN /\ Cardinality(Via(i, l)) = 1
                        /\ \A k \in Via(i, l) :
                               /\ calls[k].args = sends[i].args
                               /\ calls[k].fn = l.fn
                        /\ l \in Range(Cur[sends[i].msg])
                   ELSE /\ Via(i, l) = {}
                        /\ l \notin Range(Cur[sends[i].msg])
                        /\ <<sends[i].msg, l>> \in removed
    /\ \A m \in Msgs : \A l \in Range(pre.content[m]) :
           l.kind = "weak" /\ l.fn \in alive /\ l \notin Range(Cur[m]) =>
               op.name \in {"off_all", "clear"}

\* a listener passed to once and to onweak died inside a send: the send
\* called it through the closure of once, then a listener of on, the
\* collector took it, and the closure of onweak found it dead
C8_Witness ==
    /\ op.name = "send"
    /\ Idle
    /\ Len(sends[1].start) = 3
    /\ sends[1].start[1].kind = "once"
    /\ sends[1].start[2].kind = "fn"
    /\ sends[1].start[3].kind = "weak"
    /\ sends[1].start[3].fn = sends[1].start[1].fn
    /\ sends[1].start[3].fn \in freed
    /\ Len(calls) = 2
    /\ calls[1].via = sends[1].start[1]
    /\ calls[2].via = sends[1].start[2]
    /\ <<op.msg, sends[1].start[3]>> \in removed
    /\ Cur[op.msg] = <<sends[1].start[2]>>

\* a send found the listener of an onweak closure dead that had died
\* before the send began, ahead of another listener that it called
C8_WitnessBefore ==
    /\ op.name = "send"
    /\ Idle
    /\ freed = {}
    /\ Len(sends[1].start) >= 2
    /\ sends[1].start[1].kind = "weak"
    /\ sends[1].start[1].fn \notin alive
    /\ calls # <<>>

\* a send called a listener through its closure of onweak and returned
C8_WitnessCalled ==
    /\ op.name = "send"
    /\ Idle
    /\ \E k \in 1..Len(calls) : calls[k].via.kind = "weak"

\* C9 as claimed: every message in the registry has a listener.
C9_NoEmptyEntry ==
    \A m \in messages : Cur[m] # <<>>

\* C9 amended: the entry of a message is deleted only by off_all and clear;
\* off and sends (where once and onweak closures remove themselves) leave
\* the keys as they are, so a message whose last listener went that way
\* keeps an entry with an empty Set.
C9_EntryKept ==
    /\ \A m \in pre.keys : m \notin messages =>
           op.name \in {"off_all", "clear"}
    /\ op.name \in {"off", "send", "release"} => messages = pre.keys
    /\ op.name = "off" /\ ret = "true" /\ Len(pre.content[op.msg]) = 1 =>
           op.msg \in messages /\ Cur[op.msg] = <<>>

\* a send has returned whose last listener, a closure of once or of onweak,
\* removed itself: the message is still listed
C9_Witness ==
    /\ op.name = "send"
    /\ Idle
    /\ pre.content[op.msg] # <<>>
    /\ Cur[op.msg] = <<>>
    /\ op.msg \in messages

\* C10: the promise of send_async resolves to what send returns when the
\* timer fires: true iff the message has listeners then, and the listeners
\* called are those of the Set then, whatever was there at the call of
\* send_async.
C10_AsyncAtDispatch ==
    op.name = "timeout" /\ Idle /\ ~thrown =>
        /\ promise[op.pid] \in {"true", "false"}
        /\ promise[op.pid] = "true" <=> pre.content[op.msg] # <<>>
        /\ Len(calls) = Len(pre.content[op.msg])
        /\ \A k \in 1..Len(calls) :
               /\ calls[k].via = pre.content[op.msg][k]
               /\ calls[k].args = op.args

\* a listener subscribed between send_async and the timer was called and
\* the promise resolved true
C10_Witness ==
    /\ op.name = "timeout"
    /\ Idle
    /\ ~op.had
    /\ promise[op.pid] = "true"
    /\ Len(calls) = 1

\* a listener removed between send_async and the timer was not called
C10_WitnessRemoved ==
    /\ op.name = "timeout"
    /\ Idle
    /\ op.had
    /\ promise[op.pid] = "false"

\* C11: send_async never dispatches synchronously.  When send_async has
\* returned, no send has begun and no listener was called, the registry is
\* as before, the promise it returned is pending and its timer is the last
\* of the queue; sends and listener calls belong to timer callbacks, which
\* are jobs of their own.
C11_AsyncNotSynchronous ==
    /\ op.name = "send_async" =>
           /\ ret = "promise"
           /\ Idle
           /\ sends = <<>>
           /\ calls = <<>>
           /\ ~thrown
           /\ Cur = pre.content
           /\ promise[op.pid] = "pending"
           /\ timers # <<>>
           /\ LET t == timers[Len(timers)] IN
                  t.msg = op.msg /\ t.args = op.args /\ t.pid = op.pid
    /\ (sends # <<>> \/ calls # <<>> \/ ~Idle) => op.name = "timeout"

\* send_async has returned for a message with listeners, behind a timer
\* that was already waiting
C11_Witness ==
    /\ op.name = "send_async"
    /\ Len(Cur[op.msg]) >= 2
    /\ Len(timers) = 2

\* C12: once(m, L) returns the caller's listener L, not its closure, so
\* that off(m, r) with the returned r, while L itself is not subscribed to
\* m, returns false and leaves the registry, the one-shot subscription
\* included, as it was.
C12_OnceReturnsListener ==
    /\ op.name = "once" => out = FnL(op.fn)
    /\ (/\ op.name = "off_returned"
        /\ FnL(op.fn) \notin Range(pre.content[op.msg]))
       => ret = "false" /\ Cur = pre.content

\* C13: onweak(m, L) returns a weak handle to L: not L itself, which is a
\* strong reference to it, and not its closure.
C13_OnWeakReturnsWeakHandle ==
    op.name = "onweak" => out = RefL(op.fn)

\* C14: Channel.add(host) is idempotent: for a host that has a channel
\* already, a further add leaves the channel of the host and its registry,
\* with all its subscriptions, as they were.
C14_AddIdempotent ==
    (op.name = "add" /\ StaticHas(pre.channels, op.host))
        => channels[op.host] = pre.channels[op.host]

\* C15: Channel.get(host) does not raise for a host that was never added,
\* it returns an absent result; for a host that was added it returns the
\* registry of the channel of the host.
C15_GetAbsent ==
    op.name = "get" =>
        /\ ~thrown
        /\ ret = IF StaticHas(pre.channels, op.host) THEN "subscribers"
                 ELSE "undefined"

\* C16: when a listener raises during the deferred dispatch of send_async,
\* the promise send_async returned is rejected: it is not left pending
\* with the exception uncaught in the timer callback.
C16_AsyncFaultRejects ==
    (op.name = "timeout" /\ thrown) => promise[op.pid] = "rejected"

\* C17: when a listener raises during send(m, args), the send ends there
\* and its caller gets the exception.  The listeners called are those of
\* the Set up to the faulting one, in order, each exactly once, the
\* faulting one last and once only; the subscriptions made with on, that
\* of the faulting listener included, are all still registered, and of
\* the one-shot subscriptions those that were called are gone.
C17_FaultPropagates ==
    (op.name = "send" /\ \E k \in 1..Len(calls) : calls[k].fn = "T") =>
        LET n == Len(calls)
            c == pre.content[op.msg]
            Stays(l) == ~(l.kind = "once" /\ \E k \in 1..n : c[k] = l)
        IN /\ thrown
           /\ ret = "throw"
           /\ Idle
           /\ n <= Len(c)
           /\ \A k \in 1..n :
                  /\ calls[k].via = c[k]
                  /\ calls[k].args = op.args
                  /\ calls[k].fn = "T" <=> k = n
           /\ \A m \in Msgs : \A l \in Range(pre.content[m]) :
                  l.kind = "fn" => l \in Range(Cur[m])
           /\ Cur = [pre.content EXCEPT ![op.msg] = SelectSeq(c, Stays)]

\* a send whose second listener threw: the one before it was a one-shot
\* subscription, the one after it was not called
C17_Witness ==
    /\ op.name = "send"
    /\ thrown
    /\ Len(calls) = 2
    /\ Len(pre.content[op.msg]) = 3
    /\ calls[1].via.kind = "once"
    /\ calls[2].via = FnL("T")

\* C18: unsubscribing during a dispatch does not affect that dispatch: a
\* send that has returned has called every listener that was in the Set of
\* its message when it began exactly once, also one that a listener called
\* before it removed with off.
C18_OffDuringSend ==
    \A i \in 1..Len(sends) :
        sends[i].done =>
            \A l \in Range(sends[i].start) : Cardinality(Via(i, l)) = 1

\* C19: a send calls only the listeners that were in the Set of its
\* message when it began, not one that a listener subscribed during it.
C19_SendOnlyStartSet ==
    \A k \in 1..Len(calls) :
        calls[k].via \in Range(sends[calls[k].sid].start)

\* C20: clear() called from a listener during a send is safe and atomic.
\* The send in progress goes on over the Set it began with: when it has
\* returned, it has returned true and has called every listener of that
\* Set exactly once and nothing else; and when clear has returned the
\* registry has no message and no listener.
C20_ClearDuringSend ==
    /\ \A i \in 1..Len(sends) :
           (/\ sends[i].done
            /\ \E k \in 1..Len(calls) : calls[k].sid = i /\ calls[k].fn = "C")
           => /\ sends[i].ret = "true"
              /\ \A l \in Range(sends[i].start) :
                     Cardinality(Via(i, l)) = 1
              /\ \A k \in 1..Len(calls) :
                     calls[k].sid = i => calls[k].via \in Range(sends[i].start)
    /\ (calls # <<>> /\ calls[Len(calls)].fn = "C") =>
           /\ messages = {}
           /\ \A m \in Msgs : Cur[m] = <<>>

\* a send has returned whose first listener cleared the channel, with a
\* one-shot and a persistent listener behind it in the Set
C20_Witness ==
    /\ op.name = "send"
    /\ ret = "true"
    /\ Len(sends) = 1
    /\ Len(sends[1].start) = 3
    /\ sends[1].start[1] = FnL("C")
    /\ sends[1].start[2].kind = "once"
    /\ Len(calls) = 3
    /\ messages = {}

\* C21: every send ends after at most as many listener calls as the Set
\* of its message held when it began, also when listeners subscribe to the
\* message during the send.
C21_SendBounded ==
    \A i \in 1..Len(sends) :
        Cardinality({k \in 1..Len(calls) : calls[k].sid = i})
            <= Len(sends[i].start)

\* C22: deferred dispatches run in the order of their send_async calls and
\* never interleave.  send_async puts its timer behind those waiting; the
\* timer that fires is the oldest one, and it fires only when no dispatch
\* is running; while a dispatch runs, no other job begins and the queue
\* stays as it is.
C22_Fifo ==
    [][/\ Len(timers') > Len(timers) =>
              /\ op'.name = "send_async"
              /\ timers' = Append(timers, timers'[Len(timers')])
       /\ Len(timers') < Len(timers) =>
              /\ Idle
              /\ op'.name = "timeout"
              /\ op'.pid = Head(timers).pid
              /\ op'.msg = Head(timers).msg
              /\ timers' = Tail(timers)
       /\ Len(timers') = Len(timers) => timers' = timers
       /\ ~Idle => op' = op /\ timers' = timers]_vars

\* the dispatch of the first of two send_async calls has called its
\* listeners and ended, the timer of the second, for the other message, is
\* still waiting
C22_Witness ==
    /\ op.name = "timeout"
    /\ Idle
    /\ Len(calls) = 2
    /\ Len(timers) = 1
    /\ timers[1].msg # op.msg
    /\ promise[timers[1].pid] = "pending"

\* C23: a one-shot subscription is removed from the registry before its
\* listener runs.  Once the listener of a once closure was called, whether
\* it returned or raised, the closure is no longer in the Set of its
\* message, it was removed in this job, and the job called it once only.
C23_OnceRemovedFirst ==
    \A k \in 1..Len(calls) :
        LET l == calls[k].via IN
        l.kind = "once" =>
            /\ l \notin Range(Cur[l.msg])
            /\ <<l.msg, l>> \in removed
            /\ \A j \in 1..Len(calls) : calls[j].via = l => j = k

\* the listener of a one-shot subscription raised on its first delivery,
\* after another listener of the same send
C23_Witness ==
    /\ op.name = "send"
    /\ thrown
    /\ Len(calls) = 2
    /\ calls[2].via.kind = "once"
    /\ calls[2].fn = "T"
    /\ calls[2].via \in Range(pre.content[op.msg])

\* C24: one-shot and weak subscriptions are keyed by their own closure,
\* not by the caller's listener.  Every once and onweak call adds an entry
\* of its own behind those of the Set, whatever the Set holds for the same
\* listener; a send that has returned has called the listener once through
\* each once closure of its Set, and has removed from the Sets only once
\* closures it called and onweak closures: the entries made with on, also
\* those of the same listener, are where they were.
C24_KeyedByTrampoline ==
    /\ op.name \in {"once", "onweak"} =>
           LET c == pre.content[op.msg]
               l == Cur[op.msg][Len(Cur[op.msg])]
           IN /\ Len(Cur[op.msg]) = Len(c) + 1
              /\ SubSeq(Cur[op.msg], 1, Len(c)) = c
              /\ l.kind = IF op.name = "once" THEN "once" ELSE "weak"
              /\ l.fn = op.fn
              /\ l \notin Range(c)
    /\ (op.name = "send" /\ Idle /\ sends # <<>>) =>
           LET Stays(l) == <<op.msg, l>> \notin removed IN
           /\ \A l \in Range(sends[1].start) :
                  l.kind = "once" =>
                      /\ Cardinality(Via(1, l)) = 1
                      /\ \A k \in Via(1, l) : calls[k].fn = l.fn
           /\ \A x \in removed :
                  /\ x[1] = op.msg
                  /\ x[2].kind \in {"once", "weak"}
                  /\ x[2].kind = "once" => Via(1, x[2]) # {}
           /\ Cur = [pre.content EXCEPT
                         ![op.msg] = SelectSeq(pre.content[op.msg], Stays)]

\* a send has returned that called one listener three times: through its
\* entry of on and through the closures of two once calls; the entry of
\* on is all that is left
C24_Witness ==
    /\ op.name = "send"
    /\ Idle
    /\ Len(calls) = 3
    /\ \A k \in 1..3 : calls[k].fn = "A"
    /\ Cardinality({k \in 1..3 : calls[k].via.kind = "once"}) = 2
    /\ Cur[op.msg] = <<FnL("A")>>

\* C25: a weak subscription whose listener has died stays in the registry
\* until a send reaches it: on, once, onweak and the collector remove
\* nothing, between jobs or inside a send, where every entry the send
\* began with has been called, or has evicted itself, or is still in the
\* Set ahead of the loop.  The result of a send is true exactly if the Set
\* of its message was not empty when it began: a send that found only
\* closures of listeners that are dead when it returns has returned true,
\* has called nothing and has emptied the Set, so that the next send of
\* the message returns false.
C25_DeadWeakLazy ==
    /\ op.name \in {"on", "once", "onweak", "release"} =>
           /\ pre.keys \subseteq messages
           /\ \A m \in Msgs :
                  SubSeq(Cur[m], 1, Len(pre.content[m])) = pre.content[m]
    /\ op.name = "send" =>
           LET c == pre.content[op.msg]
               evicted == {x \in removed : x[2].kind = "weak"}
               ahead == IF Idle THEN 0
                        ELSE Len(heap[stack[1].set]) - stack[1].idx
           IN
           /\ \A x \in evicted :
                  /\ x[1] = op.msg
                  /\ x[2] \in Range(c)
                  /\ x[2].fn \notin alive
           /\ \A l \in Range(c) :
                  l.kind = "weak" /\ l \notin Range(Cur[op.msg]) =>
                      <<op.msg, l>> \in evicted
           /\ Len(calls) + Cardinality(evicted) + ahead = Len(c)
           /\ \A m \in Msgs : m # op.msg => Cur[m] = pre.content[m]
    /\ (op.name = "send" /\ Idle) =>
           LET c == pre.content[op.msg] IN
           /\ ret = IF c = <<>> THEN "false" ELSE "true"
           /\ (/\ c # <<>>
               /\ \A l \in Range(c) : l.kind = "weak" /\ l.fn \notin alive)
              => /\ calls = <<>>
                 /\ Cur[op.msg] = <<>>
                 /\ removed = {<<op.msg, l>> : l \in Range(c)}

\* the collector has taken a listener inside a send, ahead of its closure
\* of onweak: the closure is still in the Set, behind a closure the send
\* has called
C25_Witness ==
    /\ op.name = "send"
    /\ ~Idle
    /\ calls # <<>>
    /\ removed = {}
    /\ \E l \in Range(Cur[op.msg]) : l.kind = "weak" /\ l.fn \in freed

\* a send has returned true that found two closures of a dead listener
\* and nothing else: nothing was called and the Set is empty
C25_WitnessEmptied ==
    /\ op.name = "send"
    /\ Idle
    /\ ret = "true"
    /\ calls = <<>>
    /\ Len(pre.content[op.msg]) = 2
    /\ Cur[op.msg] = <<>>

\* the collector has taken, between two jobs, a listener whose closure of
\* onweak is still in the registry
C25_WitnessKept ==
    /\ op.name = "release"
    /\ \E m \in Msgs : \E l \in Range(Cur[m]) :
           l.kind = "weak" /\ l.fn \notin alive

====
